---------------------------- MODULE Spec2Model ----------------------------
(***************************************************************************)
(* Model of the email-newsletter service: the confirmation route           *)
(* (src/src/routes/subscriptions_confirm.rs) running as independently      *)
(* scheduled requests against one Postgres store, and the outbound email   *)
(* client (src/src/email_client.rs).                                       *)
(*                                                                         *)
(* The store is Postgres at its default isolation level READ COMMITTED:    *)
(* a statement sees the rows committed when it starts, the writes of an    *)
(* open transaction are invisible to every other connection and are kept  *)
(* under row locks, and a statement that has to write a row locked by      *)
(* another open transaction waits until that transaction ends.  COMMIT     *)
(* publishes all writes of the transaction in one step; dropping an open   *)
(* sqlx Transaction rolls it back.                                         *)
(***************************************************************************)
EXTENDS Integers, Sequences, FiniteSets, TLC

\* ------------------------------------------------------------------ bounds
NReq == 2                          \* concurrent confirm requests

Req == 1..NReq
Subscribers == {"S1", "S2"}        \* rows of subscriptions
StoredTokens == {"abc123", "t2"}   \* token strings the store may hold
TokenStrings == StoredTokens \cup {"zzz"}   \* "zzz" is never bound
NoRow == "NoRow"                   \* no row / Option::None
Pending == "pending_confirmation"
Confirmed == "confirmed"
StatusValues == {Pending, Confirmed}
NoWrite == "nowrite"

VARIABLES
    status,      \* committed subscriptions.status, by subscriber id
    tokens,      \* committed subscription_tokens: token -> subscriber_id or NoRow
    pc,          \* per request: the await point it is at
    tok,         \* per request: parameters.subscription_token
    sid,         \* per request: the id the token resolved to
    txOpen,      \* per request: its Transaction is open
    txStatus,    \* per request: uncommitted UPDATEs (row -> value), row-locked
    txDeleted,   \* per request: uncommitted DELETEd token rows, row-locked
    err,         \* per request: context of the error returned, or "none"
    resp,        \* per request: HTTP status of the response, 0 = none yet
    \* history of the run, read by the properties only
    seen,        \* per request: what the store held for tok when it was looked up
    faults,      \* per request: the store operations that failed under it
    checked,     \* per request: the status the store held when it was read
    wrote,       \* per request: "changed" once a step of it changed the committed
                 \* store, "noop" once it committed without changing it, else "no"
    nTrans,      \* per subscriber: committed changes of its status
    nDeleted,    \* per token: rows removed by committed DELETE statements
    cancelledAt, \* per request: the await point at which it was cancelled
    issued,      \* per token: the subscriber it was bound to at the start
    \* the email client and one send_email call
    epc,         \* "idle", "sending" (awaiting the provider) or "done"
    eargs,       \* the arguments of the call
    wire,        \* the requests the call has put on the network, in order
    eanswer,     \* what ended the wait: kind "status" with its code, "transport",
                 \* "timeout", "redirects", or "none"
    eresult,     \* the Result returned: "Ok", "Err", or "none"
    client       \* the EmailClient: base_url, sender, api_token, secret_token

storeVars == <<status, tokens, txOpen, txStatus, txDeleted>>
reqVars == <<pc, tok, sid, err, resp>>
histVars == <<seen, faults, checked, wrote, nTrans, nDeleted, cancelledAt, issued>>
confirmVars == <<storeVars, reqVars, histVars>>
emailVars == <<epc, eargs, wire, eanswer, eresult, client>>
vars == <<confirmVars, emailVars>>

NoWrites == [s \in Subscribers |-> NoWrite]

Answer(kind, code) == [kind |-> kind, code |-> code]

NoArgs == [recipient |-> "", subject |-> "", html_content |-> "", text_content |-> ""]

\* EmailClient::new: the http client is built with the timeout, the rest is kept
EmailClient_new(base_url, sender, api_token, secret_token) ==
    [base_url |-> base_url, sender |-> sender,
     api_token |-> api_token, secret_token |-> secret_token]

BaseUrls == {"http://127.0.0.1:8025", "https://api.mailjet.com/v3.1"}
Senders == {"news@example.com", "no-reply@example.org"}
Recipients == {"ursula@example.com", "bob@example.net"}
Subjects == {"Welcome!", "Hi"}
HtmlBodies == {"<p>Confirm</p>", "<b>Hello</b>"}
TextBodies == {"Confirm", "Hello"}

InitEmail ==
    /\ client \in {EmailClient_new(b, s, "api-key", "api-secret") :
                       b \in BaseUrls, s \in Senders}
    /\ epc = "idle"
    /\ eargs = NoArgs
    /\ wire = <<>>
    /\ eanswer = Answer("none", 0)
    /\ eresult = "none"

InitRequests ==
    /\ pc = [r \in Req |-> "idle"]
    /\ tok = [r \in Req |-> NoRow]
    /\ sid = [r \in Req |-> NoRow]
    /\ txOpen = [r \in Req |-> FALSE]
    /\ txStatus = [r \in Req |-> NoWrites]
    /\ txDeleted = [r \in Req |-> {}]
    /\ err = [r \in Req |-> "none"]
    /\ resp = [r \in Req |-> 0]
    /\ seen = [r \in Req |-> "none"]
    /\ faults = [r \in Req |-> {}]
    /\ checked = [r \in Req |-> "none"]
    /\ wrote = [r \in Req |-> "no"]
    /\ nTrans = [s \in Subscribers |-> 0]
    /\ nDeleted = [t \in TokenStrings |-> 0]
    /\ cancelledAt = [r \in Req |-> "none"]
    /\ issued = tokens

\* the two tables as intake, outside these sources, may have left them: each
\* subscriber pending or confirmed, "abc123" bound to S1, "t2" bound to S1
\* (a second token of the same subscriber) or to S2, "zzz" bound to nobody
Init ==
    /\ status \in [Subscribers -> StatusValues]
    /\ tokens \in [TokenStrings -> Subscribers \cup {NoRow}]
    /\ tokens["abc123"] = "S1"
    /\ tokens["t2"] # NoRow
    /\ tokens["zzz"] = NoRow
    /\ InitRequests
    /\ InitEmail
    /\ client = EmailClient_new("http://127.0.0.1:8025", "news@example.com",
                                "api-key", "api-secret")


\* ------------------------------------------------- responses and errors
HTTP_OK == 200
HTTP_UNAUTHORIZED == 401
HTTP_INTERNAL_SERVER_ERROR == 500

\* ResponseError::status_code: the only variant is UnexpectedError
status_code(e) == HTTP_INTERNAL_SERVER_ERROR

CtxLookup == "Error finding subscriber from token"
CtxBegin == "Fialed to acquire a Postgres connection from the pool"
CtxUpdate == "Failed to set subscriber status to confirmed"
CtxDelete == "Failed to delete old subscriber token"
CtxCommit == "Failed to commit SQL transaction to confirm user"

InFlight == {"lookup", "check", "begin", "update", "delete", "commit", "committed"}

\* ----------------------------------------------------------- the store
\* variant: the lookup's error is swallowed into "no row"
get_subscriber_id_swallow_error(t, storeOk) ==
    [ok |-> TRUE, id |-> IF storeOk THEN tokens[t] ELSE NoRow]

\* SELECT subscriber_id FROM subscription_tokens WHERE subscription_token = $1
\* with fetch_optional: Err on a store failure, else Ok(Some(id)) or Ok(None)
get_subscriber_id_from_token(t, storeOk) ==
    IF storeOk THEN [ok |-> TRUE, id |-> tokens[t]]
               ELSE [ok |-> FALSE, id |-> NoRow]

\* variant: a failed status read counts as confirmed
is_user_confirmed_fail_open(s, storeOk) ==
    ~storeOk \/ status[s] = Confirmed

\* variant: the status query has no "AND status = 'confirmed'"
is_user_confirmed_any_status(s, storeOk) ==
    storeOk

\* variant: the status query never matches
is_user_confirmed_never(s, storeOk) ==
    FALSE

\* SELECT status ... WHERE id = $1 AND status = 'confirmed' with fetch_one,
\* then is_ok(): a failed read and an empty result are both "false"
is_user_confirmed(s, storeOk) ==
    storeOk /\ status[s] = Confirmed

\* variant: writers do not wait for each other's row locks
NoRowLocks(r, subRows, tokRows) ==
    TRUE

\* row locks of READ COMMITTED: a statement of the transaction of r that writes
\* the subscriptions rows subRows or the subscription_tokens rows tokRows
\* proceeds only when no other open transaction has written one of them
LocksFree(r, subRows, tokRows) ==
    \A q \in Req \ {r} :
        txOpen[q] => /\ \A s \in subRows : txStatus[q][s] = NoWrite
                     /\ txDeleted[q] \cap tokRows = {}

\* pool.begin()
begin(r) ==
    /\ txOpen' = [txOpen EXCEPT ![r] = TRUE]
    /\ UNCHANGED <<status, tokens, txStatus, txDeleted>>

\* variant: the UPDATE matches no row
confirm_subscriber_no_row(r) ==
    /\ LocksFree(r, {sid[r]}, {})
    /\ UNCHANGED <<status, tokens, txOpen, txStatus, txDeleted>>

\* variant: the UPDATE runs on the pool, outside the transaction
confirm_subscriber_on_pool(r) ==
    /\ status' = [status EXCEPT ![sid[r]] = Confirmed]
    /\ UNCHANGED <<tokens, txOpen, txStatus, txDeleted>>

\* variant: the UPDATE writes the wrong status literal
confirm_subscriber_wrong_status(r) ==
    /\ LocksFree(r, {sid[r]}, {})
    /\ txStatus' = [txStatus EXCEPT ![r][sid[r]] = Pending]
    /\ UNCHANGED <<status, tokens, txOpen, txDeleted>>

\* UPDATE subscriptions SET status = 'confirmed' WHERE id = $1, in the transaction
confirm_subscriber(r) ==
    /\ LocksFree(r, {sid[r]}, {})
    /\ txStatus' = [txStatus EXCEPT ![r][sid[r]] = Confirmed]
    /\ UNCHANGED <<status, tokens, txOpen, txDeleted>>

\* variant: DELETE ... WHERE subscription_token = $1, the presented token only
delete_old_token_by_token(r) ==
    LET rows == {t \in TokenStrings : t = tok[r] /\ tokens[t] # NoRow} IN
    /\ LocksFree(r, {}, rows)
    /\ txDeleted' = [txDeleted EXCEPT ![r] = @ \cup rows]
    /\ UNCHANGED <<status, tokens, txOpen, txStatus>>

\* variant: the DELETE matches no row
delete_old_token_nothing(r) ==
    UNCHANGED <<status, tokens, txOpen, txStatus, txDeleted>>

\* DELETE FROM subscription_tokens WHERE subscriber_id = $1, in the transaction:
\* every committed row of the subscriber, none being an error
delete_old_token(r) ==
    LET rows == {t \in TokenStrings : tokens[t] = sid[r]} IN
    /\ LocksFree(r, {}, rows)
    /\ txDeleted' = [txDeleted EXCEPT ![r] = @ \cup rows]
    /\ UNCHANGED <<status, tokens, txOpen, txStatus>>

\* transaction.commit(): every write of the transaction becomes visible at once
commit(r) ==
    /\ status' = [s \in Subscribers |->
                    IF txStatus[r][s] # NoWrite THEN txStatus[r][s] ELSE status[s]]
    /\ tokens' = [t \in TokenStrings |->
                    IF t \in txDeleted[r] THEN NoRow ELSE tokens[t]]
    /\ txOpen' = [txOpen EXCEPT ![r] = FALSE]
    /\ txStatus' = [txStatus EXCEPT ![r] = NoWrites]
    /\ txDeleted' = [txDeleted EXCEPT ![r] = {}]

\* variant: an abandoned transaction is committed
rollback_commits(r) ==
    commit(r)

\* variant: the abandoned transaction is never closed
rollback_leaks(r) ==
    UNCHANGED <<status, tokens, txOpen, txStatus, txDeleted>>

\* Drop of the Transaction (`?` return, or the future dropped): ROLLBACK
rollback(r) ==
    /\ txOpen' = [txOpen EXCEPT ![r] = FALSE]
    /\ txStatus' = [txStatus EXCEPT ![r] = NoWrites]
    /\ txDeleted' = [txDeleted EXCEPT ![r] = {}]
    /\ UNCHANGED <<status, tokens>>

\* --------------------------------------------------------------- history
Observe(r, op, storeOk) ==
    /\ faults' = [faults EXCEPT ![r] = IF storeOk THEN @ ELSE @ \cup {op}]
    /\ wrote' = [wrote EXCEPT ![r] =
                    IF status' # status \/ tokens' # tokens THEN "changed"
                    ELSE IF op = "commit" /\ pc'[r] = "committed" /\ @ = "no" THEN "noop"
                    ELSE @]
    /\ nTrans' = [s \in Subscribers |->
                    IF status'[s] # status[s] THEN nTrans[s] + 1 ELSE nTrans[s]]
    /\ nDeleted' = [t \in TokenStrings |->
                    IF op = "commit" /\ pc'[r] = "committed" /\ t \in txDeleted[r]
                    THEN nDeleted[t] + 1 ELSE nDeleted[t]]
    /\ cancelledAt' = IF op = "cancel" THEN [cancelledAt EXCEPT ![r] = pc[r]]
                      ELSE cancelledAt
    /\ UNCHANGED issued

\* -------------------------------------------------- confirm, step by step
\* `?` on an Err: the error is wrapped with its context and returned
Fail(r, context) ==
    /\ err' = [err EXCEPT ![r] = context]
    /\ resp' = [resp EXCEPT ![r] = status_code(context)]
    /\ pc' = [pc EXCEPT ![r] = "done"]

Reply(r, code) ==
    /\ resp' = [resp EXCEPT ![r] = code]
    /\ pc' = [pc EXCEPT ![r] = "done"]
    /\ UNCHANGED err

\* variants: an unresolved token answered as a success, or as "not found"
unauthorized_as_ok(r) ==
    Reply(r, HTTP_OK)

unauthorized_as_not_found(r) ==
    Reply(r, 404)

\* None => Ok(HttpResponse::Unauthorized().finish())
unauthorized(r) ==
    Reply(r, HTTP_UNAUTHORIZED)

\* the request arrives with its query parameter
Receive(r) ==
    /\ pc[r] = "idle"
    /\ \E t \in TokenStrings : tok' = [tok EXCEPT ![r] = t]
    /\ pc' = [pc EXCEPT ![r] = "lookup"]
    /\ UNCHANGED <<storeVars, sid, err, resp, histVars, emailVars>>

\* let id = get_subscriber_id_from_token(..).await.context(..)?; match id
Resolve(r) ==
    /\ pc[r] = "lookup"
    /\ \E storeOk \in BOOLEAN :
        LET res == get_subscriber_id_from_token(tok[r], storeOk) IN
        /\ IF ~res.ok THEN Fail(r, CtxLookup) /\ UNCHANGED sid
           ELSE IF res.id = NoRow THEN unauthorized(r) /\ UNCHANGED sid
           ELSE /\ sid' = [sid EXCEPT ![r] = res.id]
                /\ pc' = [pc EXCEPT ![r] = "check"]
                /\ UNCHANGED <<err, resp>>
        /\ seen' = [seen EXCEPT ![r] =
                      IF tokens[tok[r]] = NoRow THEN "absent"
                      ELSE status[tokens[tok[r]]]]
        /\ UNCHANGED <<storeVars, tok, checked>>
        /\ Observe(r, "lookup", storeOk)
        /\ UNCHANGED emailVars

\* if is_user_confirmed(subscriber_id, &pool).await { return Ok(200) }
CheckConfirmed(r) ==
    /\ pc[r] = "check"
    /\ \E storeOk \in BOOLEAN :
        /\ IF is_user_confirmed(sid[r], storeOk)
           THEN Reply(r, HTTP_OK)
           ELSE pc' = [pc EXCEPT ![r] = "begin"] /\ UNCHANGED <<err, resp>>
        /\ checked' = [checked EXCEPT ![r] = status[sid[r]]]
        /\ UNCHANGED <<storeVars, tok, sid, seen>>
        /\ Observe(r, "status", storeOk)
        /\ UNCHANGED emailVars

\* let mut transaction = pool.begin().await.context(..)?;
Begin(r) ==
    /\ pc[r] = "begin"
    /\ \E storeOk \in BOOLEAN :
        /\ IF storeOk
           THEN begin(r) /\ pc' = [pc EXCEPT ![r] = "update"] /\ UNCHANGED <<err, resp>>
           ELSE Fail(r, CtxBegin) /\ UNCHANGED storeVars
        /\ UNCHANGED <<tok, sid, seen, checked>>
        /\ Observe(r, "begin", storeOk)
        /\ UNCHANGED emailVars

\* confirm_subscriber(subscriber_id, &mut transaction).await.context(..)?;
ConfirmSubscriber(r) ==
    /\ pc[r] = "update"
    /\ \E storeOk \in BOOLEAN :
        /\ IF storeOk
           THEN confirm_subscriber(r) /\ pc' = [pc EXCEPT ![r] = "delete"]
                /\ UNCHANGED <<err, resp>>
           ELSE Fail(r, CtxUpdate) /\ rollback(r)
        /\ UNCHANGED <<tok, sid, seen, checked>>
        /\ Observe(r, "update", storeOk)
        /\ UNCHANGED emailVars

\* delete_old_token(subscriber_id, &mut transaction).await.context(..)?;
DeleteOldToken(r) ==
    /\ pc[r] = "delete"
    /\ \E storeOk \in BOOLEAN :
        /\ IF storeOk
           THEN delete_old_token(r) /\ pc' = [pc EXCEPT ![r] = "commit"]
                /\ UNCHANGED <<err, resp>>
           ELSE Fail(r, CtxDelete) /\ rollback(r)
        /\ UNCHANGED <<tok, sid, seen, checked>>
        /\ Observe(r, "delete", storeOk)
        /\ UNCHANGED emailVars

\* transaction.commit().await.context(..)?;
Commit(r) ==
    /\ pc[r] = "commit"
    /\ \E storeOk \in BOOLEAN :
        /\ IF storeOk
           THEN commit(r) /\ pc' = [pc EXCEPT ![r] = "committed"]
                /\ UNCHANGED <<err, resp>>
           ELSE Fail(r, CtxCommit) /\ rollback(r)
        /\ UNCHANGED <<tok, sid, seen, checked>>
        /\ Observe(r, "commit", storeOk)
        /\ UNCHANGED emailVars

\* Ok(HttpResponse::Ok().finish()) once the commit has been acknowledged
Respond(r) ==
    /\ pc[r] = "committed"
    /\ Reply(r, HTTP_OK)
    /\ UNCHANGED <<storeVars, tok, sid, histVars, emailVars>>

\* the request's future is dropped at an await point; an open Transaction
\* is dropped with it
Cancel(r) ==
    /\ pc[r] \in InFlight
    /\ pc' = [pc EXCEPT ![r] = "cancelled"]
    /\ rollback(r)
    /\ UNCHANGED <<tok, sid, err, resp, seen, checked>>
    /\ Observe(r, "cancel", TRUE)
    /\ UNCHANGED emailVars

Next ==
    \E r \in Req :
        \/ Receive(r)
        \/ Resolve(r)
        \/ CheckConfirmed(r)
        \/ Begin(r)
        \/ ConfirmSubscriber(r)
        \/ DeleteOldToken(r)
        \/ Commit(r)
        \/ Respond(r)
        \/ Cancel(r)

Spec == Init /\ [][Next]_vars

\* the steps of a received call, and those of them the store lets succeed
Progress(r) ==
    \/ Resolve(r)
    \/ CheckConfirmed(r)
    \/ Begin(r)
    \/ ConfirmSubscriber(r)
    \/ DeleteOldToken(r)
    \/ Commit(r)
    \/ Respond(r)

StepNoFault(r) ==
    Progress(r) /\ faults'[r] = faults[r]

\* the runtime polls every request's task, and the store completes every
\* statement that is not waiting for a row lock
\* over one store: two pending subscribers, each with its own token
InitFair ==
    /\ status = [s \in Subscribers |-> Pending]
    /\ tokens = [t \in TokenStrings |->
                    IF t = "abc123" THEN "S1" ELSE IF t = "t2" THEN "S2" ELSE NoRow]
    /\ InitRequests
    /\ InitEmail
    /\ client = EmailClient_new("http://127.0.0.1:8025", "news@example.com",
                                "api-key", "api-secret")

SpecFair == InitFair /\ [][Next]_vars /\ \A r \in Req : WF_vars(StepNoFault(r))

\* ------------------------------------------------------- the email client
RedirectLimit == 10      \* reqwest's default redirect policy

StatusCodes == {200, 202, 302, 304, 404, 500}
Null == "null"
NoBody == "nobody"

\* let url = format!("{}/send", self.base_url);
send_url(base_url) == base_url \o "/send"

\* variant: the two renderings are put in each other's field
request_body_swapped(sender, recipient, subject, html_content, text_content) ==
    [Messages |-> <<
        [From |-> [Email |-> sender, Name |-> Null],
         To |-> << [Email |-> recipient, Name |-> Null] >>,
         Subject |-> subject,
         HTMLPart |-> text_content,
         TextPart |-> html_content] >>]

\* SendEmailRequestBody as serde serializes it (PascalCase, HTMLPart renamed)
request_body(sender, recipient, subject, html_content, text_content) ==
    [Messages |-> <<
        [From |-> [Email |-> sender, Name |-> Null],
         To |-> << [Email |-> recipient, Name |-> Null] >>,
         Subject |-> subject,
         HTMLPart |-> html_content,
         TextPart |-> text_content] >>]

\* .basic_auth(api_token, Some(secret_token)): "Basic " and the base64 of
\* "user:password", kept here as the pair it encodes
basic_auth(user, password) == <<"Basic", user \o ":" \o password>>

\* self.http_client.post(&url).basic_auth(..).json(&request_body)
build_request(cl, a) ==
    [method |-> "POST",
     url |-> send_url(cl.base_url),
     authorization |-> basic_auth(cl.api_token, cl.secret_token),
     content_type |-> "application/json",
     body |-> request_body(cl.sender, a.recipient, a.subject,
                           a.html_content, a.text_content)]

\* Response::error_for_status: Err for a client or server error status
\* (4xx, 5xx), the response itself for every other status
error_for_status(code) ==
    IF code >= 400 /\ code <= 599 THEN "Err" ELSE "Ok"

\* the statuses the http client follows when a Location header comes with them
IsRedirect(code) == code \in {301, 302, 303, 307, 308}

\* the request the http client issues for a followed 301/302/303: a GET
\* of the Location without the body
follow_up(req) ==
    [method |-> "GET", url |-> "<Location>", authorization |-> req.authorization,
     content_type |-> Null, body |-> NoBody]

\* send_email(recipient, subject, html_content, text_content) up to .send()
SendEmail ==
    /\ epc = "idle"
    /\ \E rc \in Recipients, sj \in Subjects, h \in HtmlBodies, t \in TextBodies :
        LET a == [recipient |-> rc, subject |-> sj,
                  html_content |-> h, text_content |-> t] IN
        /\ eargs' = a
        /\ wire' = <<build_request(client, a)>>
    /\ epc' = "sending"
    /\ UNCHANGED <<eanswer, eresult, client, confirmVars>>

\* .send().await? then .error_for_status()?: the provider answers in time
ProviderResponds ==
    /\ epc = "sending"
    /\ \E code \in StatusCodes, location \in BOOLEAN :
        IF IsRedirect(code) /\ location
        THEN IF Len(wire) - 1 < RedirectLimit
             THEN /\ wire' = Append(wire, follow_up(wire[Len(wire)]))
                  /\ UNCHANGED <<epc, eanswer, eresult>>
             ELSE /\ epc' = "done"
                  /\ eanswer' = Answer("redirects", code)
                  /\ eresult' = "Err"
                  /\ UNCHANGED wire
        ELSE /\ epc' = "done"
             /\ eanswer' = Answer("status", code)
             /\ eresult' = error_for_status(code)
             /\ UNCHANGED wire
    /\ UNCHANGED <<eargs, client, confirmVars>>

\* .send().await?: the connection fails
TransportFailure ==
    /\ epc = "sending"
    /\ epc' = "done"
    /\ eanswer' = Answer("transport", 0)
    /\ eresult' = "Err"
    /\ UNCHANGED <<eargs, wire, client, confirmVars>>

\* variant: the http client is built without a timeout
timeout_never ==
    FALSE

\* Client::builder().timeout(timeout): the whole request exceeds the timeout
Timeout ==
    /\ epc = "sending"
    /\ epc' = "done"
    /\ eanswer' = Answer("timeout", 0)
    /\ eresult' = "Err"
    /\ UNCHANGED <<eargs, wire, client, confirmVars>>

NextEmail ==
    \/ SendEmail
    \/ ProviderResponds
    \/ TransportFailure
    \/ Timeout

\* the email client alone, over a store nobody touches
InitE ==
    /\ status = [s \in Subscribers |-> Pending]
    /\ tokens = [t \in TokenStrings |-> IF t = "abc123" THEN "S1" ELSE NoRow]
    /\ InitRequests
    /\ InitEmail

SpecEmail == InitE /\ [][NextEmail]_vars

\* the timer of the http client fires once the timeout has elapsed
SpecEmailFair == SpecEmail /\ WF_vars(Timeout)

TypeOK ==
    /\ status \in [Subscribers -> StatusValues]
    /\ tokens \in [TokenStrings -> Subscribers \cup {NoRow}]
    /\ sid \in [Req -> Subscribers \cup {NoRow}]
    /\ resp \in [Req -> {0, HTTP_OK, HTTP_UNAUTHORIZED, HTTP_INTERNAL_SERVER_ERROR}]


\* ------------------------------------------------------------- properties
Resolved(r) == seen[r] # "none" /\ "lookup" \notin faults[r]
TxClosed(r) == ~txOpen[r] /\ txStatus[r] = NoWrites /\ txDeleted[r] = {}
NobodyChanged == \A q \in Req : wrote[q] # "changed"

\* C1: a confirm call whose token was present and bound to a pending
\* subscriber when it was looked up, and under which no store operation
\* failed, returns 200; from then on the subscriber is confirmed and the
\* token is absent from the token store.
C1_ConfirmOnce ==
    \A r \in Req :
        (pc[r] = "done" /\ seen[r] = Pending /\ faults[r] = {}) =>
            /\ resp[r] = HTTP_OK
            /\ status[sid[r]] = Confirmed
            /\ tokens[tok[r]] = NoRow

C1_Witness ==
    \E r \in Req :
        /\ pc[r] = "done" /\ seen[r] = Pending /\ faults[r] = {}
        /\ wrote[r] = "changed" /\ resp[r] = HTTP_OK

\* C2: when two confirm calls resolve the same token of a pending subscriber
\* before either commits, the subscriber's status changes at most once and
\* the token row is deleted at most once, and exactly once each as soon as
\* one of the two calls has answered 200.
C2_RaceAppliesOnce ==
    \A r1, r2 \in Req :
        (r1 # r2 /\ tok[r1] = tok[r2] /\ Resolved(r1) /\ Resolved(r2)
            /\ seen[r1] = Pending /\ seen[r2] = Pending) =>
            /\ nTrans[sid[r1]] <= 1
            /\ nDeleted[tok[r1]] <= 1
            /\ (resp[r1] = HTTP_OK \/ resp[r2] = HTTP_OK) =>
                  nTrans[sid[r1]] = 1 /\ nDeleted[tok[r1]] = 1

C2_Witness ==
    \E r1, r2 \in Req :
        /\ r1 # r2 /\ tok[r1] = tok[r2] /\ Resolved(r1) /\ Resolved(r2)
        /\ seen[r1] = Pending /\ seen[r2] = Pending
        /\ resp[r1] = HTTP_OK /\ resp[r2] = HTTP_OK
        /\ wrote[r1] = "changed" /\ wrote[r2] = "noop"

\* C3: in every step of the committed store, a subscriber's status changes
\* only to confirmed and only together with the disappearance of every token
\* row bound to it, and a token row disappears only together with its
\* subscriber being confirmed: no committed state shows one without the other.
C3_AtomicTransition ==
    [][ /\ \A s \in Subscribers :
              status'[s] # status[s] =>
                  /\ status'[s] = Confirmed
                  /\ \A t \in TokenStrings : tokens'[t] # s
        /\ \A t \in TokenStrings :
              tokens'[t] # tokens[t] =>
                  /\ tokens'[t] = NoRow
                  /\ status'[tokens[t]] = Confirmed ]_vars

C3_Witness ==
    \E s \in Subscribers, t \in TokenStrings :
        nTrans[s] = 1 /\ nDeleted[t] = 1 /\ status[s] = Confirmed /\ tokens[t] = NoRow

\* C4 as claimed: a confirm call that looks up a token already deleted by a
\* committed confirm call returns 401 and changes no row.
C4_Original ==
    \A r \in Req :
        (pc[r] = "done" /\ seen[r] = "absent" /\ nDeleted[tok[r]] >= 1) =>
            resp[r] = HTTP_UNAUTHORIZED /\ wrote[r] = "no"

\* C4: a confirm call that looks up a token already deleted by a committed
\* confirm call never returns 200 and changes no row: it returns 401, or 500
\* exactly when its own token lookup failed in the store.
C4_NeverRedeemedAgain ==
    \A r \in Req :
        (pc[r] = "done" /\ seen[r] = "absent" /\ nDeleted[tok[r]] >= 1) =>
            /\ resp[r] \in {HTTP_UNAUTHORIZED, HTTP_INTERNAL_SERVER_ERROR}
            /\ resp[r] = HTTP_INTERNAL_SERVER_ERROR <=> "lookup" \in faults[r]
            /\ wrote[r] = "no"
            /\ sid[r] = NoRow

C4_Witness ==
    \E r \in Req :
        /\ pc[r] = "done" /\ seen[r] = "absent" /\ nDeleted[tok[r]] >= 1
        /\ resp[r] = HTTP_UNAUTHORIZED

\* C5: a confirm call whose token lookup succeeds and finds no row returns
\* 401, changes no subscriber or token row, and never opens a transaction.
C5_UnknownTokenNoEffect ==
    \A r \in Req :
        (seen[r] = "absent" /\ "lookup" \notin faults[r]) =>
            /\ pc[r] = "done"
            /\ resp[r] = HTTP_UNAUTHORIZED
            /\ wrote[r] = "no"
            /\ sid[r] = NoRow
            /\ TxClosed(r)

C5_Witness ==
    \E r \in Req : tok[r] = "zzz" /\ resp[r] = HTTP_UNAUTHORIZED /\ wrote[r] = "no"

\* C6: no step of any confirm call, failed and cancelled ones included,
\* takes a confirmed subscriber back to another status.
C6_StatusMonotonic ==
    [][ \A s \in Subscribers :
            status[s] = Confirmed => status'[s] = Confirmed ]_vars

C6_Witness ==
    \E s \in Subscribers, r, q \in Req :
        /\ status[s] = Confirmed /\ nTrans[s] = 1
        /\ sid[r] = s /\ wrote[r] = "changed" /\ pc[r] = "cancelled"
        /\ sid[q] = s /\ resp[q] = HTTP_INTERNAL_SERVER_ERROR

\* C7: when the status read succeeds and finds the subscriber confirmed, the
\* call returns 200 without an error, opens no transaction and changes no
\* row; with no other call changing the store, its token is still present.
C7_AlreadyConfirmedShortCircuit ==
    \A r \in Req :
        (checked[r] = Confirmed /\ "status" \notin faults[r]) =>
            /\ pc[r] = "done"
            /\ resp[r] = HTTP_OK
            /\ err[r] = "none"
            /\ wrote[r] = "no"
            /\ TxClosed(r)
            /\ NobodyChanged => tokens[tok[r]] = sid[r]

C7_Witness ==
    \E r \in Req :
        /\ seen[r] = Confirmed /\ checked[r] = Confirmed /\ "status" \notin faults[r]
        /\ resp[r] = HTTP_OK /\ tokens[tok[r]] = sid[r]

\* C8: a token lookup that fails in the store ends the call with 500 and
\* the lookup's error context, with no row changed and no transaction opened;
\* 401 is returned only by a call whose lookup succeeded and found no row.
C8_LookupFailureIsSystemError ==
    \A r \in Req :
        /\ "lookup" \in faults[r] =>
              /\ pc[r] = "done"
              /\ resp[r] = HTTP_INTERNAL_SERVER_ERROR
              /\ err[r] = CtxLookup
              /\ wrote[r] = "no"
              /\ TxClosed(r)
        /\ resp[r] = HTTP_UNAUTHORIZED =>
              "lookup" \notin faults[r] /\ seen[r] = "absent"

C8_Witness ==
    \E r \in Req :
        "lookup" \in faults[r] /\ seen[r] = "absent"
            /\ resp[r] = HTTP_INTERNAL_SERVER_ERROR

\* C9: a call under which begin, the status update, the token delete or the
\* commit failed returns 500, has changed no committed row and leaves no open
\* transaction or pending write; with no other call changing the store, the
\* subscriber has the status it had and its token is still present.
C9_FailureAbortsUnitOfWork ==
    \A r \in Req :
        (faults[r] \cap {"begin", "update", "delete", "commit"} # {}) =>
            /\ pc[r] = "done"
            /\ resp[r] = HTTP_INTERNAL_SERVER_ERROR
            /\ wrote[r] = "no"
            /\ TxClosed(r)
            /\ NobodyChanged =>
                  status[sid[r]] = seen[r] /\ tokens[tok[r]] = sid[r]

C9_Witness ==
    \E r \in Req :
        /\ "commit" \in faults[r] /\ resp[r] = HTTP_INTERNAL_SERVER_ERROR
        /\ seen[r] = Pending /\ status[sid[r]] = Pending /\ tokens[tok[r]] = sid[r]


\* C10: a finished send_email call returned Ok exactly when the provider
\* answered in time with a 2xx status: every non-2xx answer, a connection
\* failure and a timeout are failures.
C10_SuccessOnlyOn2xx ==
    epc = "done" =>
        (eresult = "Ok" <=>
            (eanswer.kind = "status" /\ eanswer.code >= 200 /\ eanswer.code <= 299))

\* C11: under the http client's timer, a send_email call that is awaiting
\* the provider always comes to an end, and a call ended by the timeout has
\* returned a failure, never success.
C11_SendEmailCompletes ==
    /\ (epc = "sending") ~> (epc = "done")
    /\ [](eanswer.kind = "timeout" => (epc = "done" /\ eresult = "Err"))

C11_Witness ==
    epc = "done" /\ eanswer.kind = "timeout" /\ eresult = "Err" /\ Len(wire) = 1

\* C12: a send_email call puts exactly one request on the network, whatever
\* the provider answers.
C12_OneAttemptPerCall ==
    epc # "idle" => Len(wire) = 1

\* C13: the request a send_email call issues is a POST to <base_url>/send
\* with a Basic Authorization header made of the two tokens and a JSON body
\* whose Messages list holds exactly one message: From.Email the configured
\* sender, To exactly one entry with the recipient's Email, and Subject,
\* HTMLPart and TextPart the arguments of the call.
C13_RequestShape ==
    epc # "idle" =>
        LET rq == wire[1]
            msgs == rq.body.Messages
        IN  /\ rq.method = "POST"
            /\ rq.url = client.base_url \o "/send"
            /\ rq.authorization =
                  <<"Basic", client.api_token \o ":" \o client.secret_token>>
            /\ rq.content_type = "application/json"
            /\ DOMAIN rq.body = {"Messages"}
            /\ Len(msgs) = 1
            /\ msgs[1].From.Email = client.sender
            /\ Len(msgs[1].To) = 1
            /\ msgs[1].To[1].Email = eargs.recipient
            /\ msgs[1].Subject = eargs.subject
            /\ msgs[1].HTMLPart = eargs.html_content
            /\ msgs[1].TextPart = eargs.text_content

C13_Witness ==
    /\ epc = "done" /\ eresult = "Ok" /\ Len(wire) = 1
    /\ eargs.recipient = "bob@example.net" /\ eargs.subject = "Hi"
    /\ client.sender = "no-reply@example.org"
    /\ wire[1].url = "https://api.mailjet.com/v3.1/send"

\* C14: a cancelled confirm call leaves no open transaction or pending write.
\* Cancelled before its commit, no step of it has changed a committed row, and
\* with no other call changing the store the subscriber has the status it had
\* and every token row is still there; cancelled after its commit, the
\* subscriber is confirmed and none of its token rows is left.
C14_CancelRollsBackOrStands ==
    \A r \in Req :
        pc[r] = "cancelled" =>
            /\ TxClosed(r)
            /\ cancelledAt[r] # "committed" =>
                  /\ wrote[r] = "no"
                  /\ (NobodyChanged /\ sid[r] # NoRow) =>
                        /\ status[sid[r]] = seen[r]
                        /\ tokens = issued
            /\ cancelledAt[r] = "committed" =>
                  /\ wrote[r] # "no"
                  /\ status[sid[r]] = Confirmed
                  /\ \A t \in TokenStrings : tokens[t] # sid[r]

C14_Witness ==
    \E r1, r2 \in Req :
        /\ cancelledAt[r1] = "commit" /\ seen[r1] = Pending /\ wrote[r1] = "no"
        /\ cancelledAt[r2] = "committed" /\ wrote[r2] = "changed"
        /\ sid[r1] = sid[r2]

\* C15: a failed status read is reported as "not confirmed" whatever the
\* subscriber's status, and a call whose status read failed has gone on to
\* begin the transaction: it answers 200 only after its own commit, and
\* otherwise 500 because a later store operation failed.
C15_StatusCheckFailsClosed ==
    /\ \A s \in Subscribers : ~is_user_confirmed(s, FALSE)
    /\ \A r \in Req :
          "status" \in faults[r] =>
              /\ pc[r] \notin {"idle", "lookup", "check"}
              /\ resp[r] = HTTP_OK => wrote[r] # "no"
              /\ (pc[r] = "done" /\ resp[r] # HTTP_OK) =>
                    /\ resp[r] = HTTP_INTERNAL_SERVER_ERROR
                    /\ faults[r] \cap {"begin", "update", "delete", "commit"} # {}

C15_Witness ==
    \E r \in Req :
        /\ "status" \in faults[r] /\ checked[r] = Confirmed
        /\ resp[r] = HTTP_OK /\ wrote[r] = "changed"

\* the order of the await points of one confirm call
StepOrder ==
    {<<"idle", "lookup">>, <<"lookup", "check">>, <<"check", "begin">>,
     <<"begin", "update">>, <<"update", "delete">>, <<"delete", "commit">>,
     <<"commit", "committed">>, <<"committed", "done">>}
    \cup {<<p, "done">> : p \in {"lookup", "check", "begin", "update", "delete", "commit"}}
    \cup {<<p, "cancelled">> : p \in InFlight}

\* C16: one confirm call moves through token resolution, status check, begin,
\* status write, token delete and commit in that order.  The status write is
\* issued in the open transaction before the token delete, the delete is
\* issued in the same transaction after it, and the call changes committed
\* rows only in its single commit step, which publishes both.
C16_StepsInOrder ==
    [][ \A r \in Req :
          /\ pc'[r] # pc[r] => <<pc[r], pc'[r]>> \in StepOrder
          /\ (txStatus'[r] # txStatus[r] /\ txStatus'[r] # NoWrites) =>
                /\ pc[r] = "update" /\ pc'[r] = "delete"
                /\ txOpen[r] /\ txDeleted[r] = {}
          /\ (txDeleted'[r] # txDeleted[r] /\ txDeleted'[r] # {}) =>
                /\ pc[r] = "delete" /\ pc'[r] = "commit"
                /\ txOpen[r] /\ txStatus[r][sid[r]] = Confirmed
          /\ pc'[r] \in {"delete", "commit"} =>
                txOpen'[r] /\ txStatus'[r][sid[r]] = Confirmed
          /\ (pc[r] = "commit" /\ pc'[r] = "committed") =>
                /\ status'[sid[r]] = Confirmed
                /\ \A t \in TokenStrings : tokens'[t] # sid[r]
          /\ wrote'[r] # wrote[r] =>
                pc[r] = "commit" /\ pc'[r] = "committed" ]_vars

C16_Witness ==
    \E r \in Req :
        /\ pc[r] = "commit" /\ txOpen[r]
        /\ txStatus[r][sid[r]] = Confirmed /\ txDeleted[r] # {}

\* C17: once a confirm call has committed for a subscriber, no token row
\* bound to that subscriber is left, whichever of its tokens was presented;
\* a call whose DELETE matched no row has met no error for it and, once it
\* has answered, answered 200.
C17_DeleteBySubscriber ==
    \A r \in Req :
        wrote[r] # "no" =>
            /\ \A t \in TokenStrings : tokens[t] # sid[r]
            /\ "delete" \notin faults[r]
            /\ err[r] = "none"
            /\ pc[r] = "done" => resp[r] = HTTP_OK

C17_Witness ==
    \E r, q \in Req :
        /\ tok[r] = "abc123" /\ wrote[r] = "changed"
        /\ issued["t2"] = sid[r] /\ nDeleted["t2"] = 1 /\ tokens["t2"] = NoRow
        /\ sid[q] = sid[r] /\ wrote[q] = "noop" /\ resp[q] = HTTP_OK

\* C18: in every committed state, a subscriber whose issued token is no
\* longer in the token store is confirmed: no interleaving of confirm calls,
\* failures and cancellations deletes a token of a pending subscriber.
C18_NoLockout ==
    \A t \in TokenStrings :
        (issued[t] # NoRow /\ tokens[t] = NoRow) => status[issued[t]] = Confirmed

C18_Witness ==
    \E t \in TokenStrings, r, q \in Req :
        /\ issued[t] # NoRow /\ tokens[t] = NoRow /\ nTrans[issued[t]] = 1
        /\ tok[r] = t /\ cancelledAt[r] \in {"delete", "commit"}
        /\ tok[q] = t /\ wrote[q] = "changed"

\* C19: a confirm call that has answered 200 resolved its token to a
\* subscriber that is confirmed in the committed store, from the moment of
\* the answer on, on the short-circuit path and on the transactional path.
C19_OkImpliesConfirmed ==
    \A r \in Req :
        resp[r] = HTTP_OK => (sid[r] # NoRow /\ status[sid[r]] = Confirmed)

C19_Witness ==
    \E r, q \in Req :
        /\ resp[r] = HTTP_OK /\ wrote[r] = "changed" /\ seen[r] = Pending
        /\ resp[q] = HTTP_OK /\ wrote[q] = "no" /\ seen[q] = Pending
        /\ checked[q] = Confirmed /\ sid[q] = sid[r]

\* the statement call r is about to issue waits for a row lock of call q
Waits(r, q) ==
    /\ r # q /\ txOpen[q]
    /\ \/ pc[r] = "update" /\ txStatus[q][sid[r]] # NoWrite
       \/ pc[r] = "delete" /\ \E t \in txDeleted[q] : tokens[t] = sid[r]

NoDeadlock ==
    \A S \in SUBSET Req :
        S # {} => \E r \in S : \A q \in S : ~Waits(r, q)

Ended(r) == pc[r] \in {"done", "cancelled"}

\* C20: with every task polled and every statement that is not waiting for a
\* row lock completed, the received confirm calls, on the same or on
\* different subscribers, all come to an end and stay ended.  No set of
\* calls waits in a cycle for each other's row locks, an ended call has no
\* open transaction, a returned call has exactly one of the answers 200, 401
\* and 500, and an answer once given never changes.
C20_EveryCallEnds ==
    /\ <>[](\A r \in Req : pc[r] \notin InFlight)
    /\ [](/\ NoDeadlock
          /\ \A r \in Req :
                /\ Ended(r) => TxClosed(r)
                /\ pc[r] = "done" <=>
                      resp[r] \in {HTTP_OK, HTTP_UNAUTHORIZED, HTTP_INTERNAL_SERVER_ERROR}
                /\ pc[r] # "done" => resp[r] = 0)
    /\ [][\A r \in Req : resp[r] # 0 => resp'[r] = resp[r]]_vars

C20_Witness ==
    \E r, q \in Req :
        Waits(r, q) /\ pc[r] = "update" /\ pc[q] = "commit" /\ txDeleted[q] # {}

=============================================================================
